---- MODULE Spec2Model ----
(***************************************************************************)
(* Cohort Analysis Dashboard: the application state of App.jsx (dataset,   *)
(* projection, Selection, Pin, deferred projection recomputation) and the  *)
(* preprocessor of utils/dataLoader.js.                                    *)
(*                                                                         *)
(* Original record indices are 0-based as in the JavaScript source; record *)
(* i of a dataset is element i+1 of the TLA+ sequence that models it.      *)
(***************************************************************************)
EXTENDS Integers, Sequences, FiniteSets, TLC

\* ------------------------------------------------------------------ bounds
MaxRecords == 3      \* longest dataset given to the preprocessor
MaxVal == 1          \* feature values are drawn from 0..MaxVal
MaxChanges == 2      \* cap on the number of reduction-method changes
MantissaBits == 3    \* significant bits of a floating-point number (53 in JavaScript)
FracBits == 8        \* the smallest floats are spaced 2^-FracBits apart
PowerIterations1 == 2 \* iterations of the first-axis loop (50 in computePCA)
PowerIterations2 == 2 \* iterations of the second-axis loop (100 in computePCA)
MaxShift == 12       \* the largest floats are below 2^(MantissaBits + MaxShift - FracBits)

\* --------------------------------------------------------------- cell values
\* A CSV cell that is 'NA', '' or absent is stored as null; a cell that does
\* not parse as a number is kept as a string, for which isNaN(v) is true.
Null == -1
NotANumber == -2

Vals == 0..MaxVal
Cells == Vals \cup {Null, NotANumber}

\* ------------------------------------------------------------------- state
VARIABLES
    data,             \* App: useState(null)   [loaded, rows]
    metadata,         \* App: useState(null)   TRUE once getFeatureMetadata() is stored
    projection,       \* App: useState([])     [by, n]: producing engine, number of points
    validIndices,     \* App: useState([])     matrix row -> original index
    pcaInfo,          \* App: useState(null)   [by, varExplained, features]: producing engine, fields present
    selectedIndices,  \* App: useState([])     Selection
    pinnedIndices,    \* App: useState([])     Pin
    colorFeature,     \* App: useState('TenYearCHD')
    clusteringMethod, \* App: useState('PCA')
    isComputing,      \* App: useState(false)
    timers,           \* pending setTimeout callbacks, each with the method and data it closed over
    trail,            \* history: the two most recent events, older first
    reductionRuns,    \* history: number of calls of computePCA / computeUMAP so far
    methodChanges,    \* history: number of reduction-method changes so far
    pdata,            \* preprocessor check: the dataset given to preprocessData
    pfeatures,        \* preprocessor check: the feature list given to preprocessData
    pres,             \* preprocessor check: the value returned ([done |-> FALSE] before the call)
    aggIn,            \* aggregator check: the dataset and the index set given to the aggregators
    aggOut,           \* aggregator check: what SubgroupSummary and computeStats produce
    stdIn,            \* standardization check: one matrix column
    stdOut,           \* standardization check: its mean, divisor and standardized entries
    risk,             \* risk calculator check: the dataset, the user's value and the reported risk
    tsne,             \* t-SNE check: the position in computeTSNE and the classes of its numbers
    pca               \* power-iteration check: the position in computePCA and its two axes

appVars == <<data, metadata, projection, validIndices, pcaInfo, selectedIndices,
             pinnedIndices, colorFeature, clusteringMethod, isComputing, timers,
             trail, reductionRuns, methodChanges>>
preVars == <<pdata, pfeatures, pres, aggIn, aggOut, stdIn, stdOut, risk, tsne, pca>>
vars == <<data, metadata, projection, validIndices, pcaInfo, selectedIndices,
          pinnedIndices, colorFeature, clusteringMethod, isComputing, timers,
          trail, reductionRuns, methodChanges, pdata, pfeatures, pres,
          aggIn, aggOut, stdIn, stdOut, risk, tsne, pca>>

\* ------------------------------------------------------------ preprocessor
\* v === null || isNaN(v)
Missing(v) == v = Null \/ v = NotANumber

RECURSIVE Insert(_, _)
Insert(x, s) ==
    IF s = <<>> THEN <<x>>
    ELSE IF x <= Head(s) THEN <<x>> \o s
    ELSE <<Head(s)>> \o Insert(x, Tail(s))

\* vals.slice().sort((a, b) => a - b)
RECURSIVE SortAsc(_)
SortAsc(s) == IF s = <<>> THEN <<>> ELSE Insert(Head(s), SortAsc(Tail(s)))

\* data.map(d => d[f]).filter(v => v !== null && !isNaN(v))
RECURSIVE PresentVals(_, _)
PresentVals(rows, f) ==
    IF rows = <<>> THEN <<>>
    ELSE (IF Missing(Head(rows)[f]) THEN <<>> ELSE <<Head(rows)[f]>>)
         \o PresentVals(Tail(rows), f)

\* A slip: the upper middle value is taken for an even count.
MedianUpper2(rows, f) ==
    LET sorted == SortAsc(PresentVals(rows, f))
        mid == Len(sorted) \div 2
    IN  IF Len(sorted) = 0 THEN 0 ELSE 2 * sorted[mid + 1]

\* Twice the median of the non-missing values of feature f (twice, so that the
\* mean of the two middle values of an even count stays an integer); 0 when
\* the feature has no non-missing value.
Median2(rows, f) ==
    LET sorted == SortAsc(PresentVals(rows, f))
        mid == Len(sorted) \div 2
    IN  IF Len(sorted) = 0 THEN 0
        ELSE IF Len(sorted) % 2 = 0 THEN sorted[mid] + sorted[mid + 1]
        ELSE 2 * sorted[mid + 1]

medians2(rows, features) == [j \in 1..Len(features) |-> Median2(rows, features[j])]

\* let allMissing = true; ... else { allMissing = false; }
allMissing(rec, features) == \A j \in 1..Len(features) : Missing(rec[features[j]])

\* A slip: a missing cell is filled with 0.
imputedRowZero(rec, features, med2) ==
    [j \in 1..Len(features) |->
        IF Missing(rec[features[j]]) THEN 0 ELSE 2 * rec[features[j]]]

\* The row built for one record (entries are twice the stored value).
imputedRow(rec, features, med2) ==
    [j \in 1..Len(features) |->
        IF Missing(rec[features[j]]) THEN med2[j] ELSE 2 * rec[features[j]]]

\* A slip: the index is recorded for every record, kept or not.
pushRowAlways(acc, row, i, dropped) ==
    [matrix |-> IF dropped THEN acc.matrix ELSE Append(acc.matrix, row),
     validIndices |-> Append(acc.validIndices, i)]

\* if (!allMissing) { matrix.push(row); validIndices.push(i); }
pushRow(acc, row, i, dropped) ==
    IF dropped THEN acc
    ELSE [matrix |-> Append(acc.matrix, row), validIndices |-> Append(acc.validIndices, i)]

\* for (let i = 0; i < n; i++) { ... }
RECURSIVE buildRows(_, _, _, _, _)
buildRows(rows, features, med2, i, acc) ==
    IF i >= Len(rows) THEN acc
    ELSE buildRows(rows, features, med2, i + 1,
                   pushRow(acc, imputedRow(rows[i + 1], features, med2), i,
                           allMissing(rows[i + 1], features)))

RECURSIVE SumCol(_, _)
SumCol(matrix, j) == IF matrix = <<>> THEN 0 ELSE Head(matrix)[j] + SumCol(Tail(matrix), j)

\* N * (val - mean) for the entry val of column j, N the number of kept rows.
Centered(matrix, r, j) == Len(matrix) * matrix[r][j] - SumCol(matrix, j)

RECURSIVE SumSq(_, _, _)
SumSq(matrix, j, r) ==
    IF r > Len(matrix) THEN 0
    ELSE Centered(matrix, r, j) * Centered(matrix, r, j) + SumSq(matrix, j, r + 1)

\* One standardized entry, kept exact: its value is (val - mean) / std with
\* val - mean = c / (2 N) and std = sqrt(ss / N) / (2 N), and std is replaced
\* by 1 when it is 0 (Math.sqrt(variance) || 1), i.e. when ss = 0.
stdEntry(matrix, r, j) ==
    [c |-> Centered(matrix, r, j), ss |-> SumSq(matrix, j, 1), unitDivisor |-> SumSq(matrix, j, 1) = 0]

normalize(matrix, features) ==
    [r \in 1..Len(matrix) |-> [j \in 1..Len(features) |-> stdEntry(matrix, r, j)]]

preprocessData(rows, features) ==
    LET built == buildRows(rows, features, medians2(rows, features), 0,
                           [matrix |-> <<>>, validIndices |-> <<>>])
    IN  IF Len(built.matrix) = 0
        THEN [matrix |-> <<>>, validIndices |-> <<>>, normalized |-> <<>>]
        ELSE [matrix |-> built.matrix, validIndices |-> built.validIndices,
              normalized |-> normalize(built.matrix, features)]

\* ---- the power-iteration computePCA (second computePCA of dataLoader.js)
\* row.every(v => v !== null && !isNaN(v))
completeRow(rec, features) == \A j \in 1..Len(features) : ~Missing(rec[features[j]])

\* features.map(f => data[i][f])   (entries are twice the stored value)
rawRow(rec, features) == [j \in 1..Len(features) |-> 2 * rec[features[j]]]

\* for (let i = 0; i < n; i++) { ... if (row.every(...)) { push; push } }
RECURSIVE buildCompleteRows(_, _, _, _)
buildCompleteRows(rows, features, i, acc) ==
    IF i >= Len(rows) THEN acc
    ELSE buildCompleteRows(rows, features, i + 1,
                           pushRow(acc, rawRow(rows[i + 1], features), i,
                                   ~completeRow(rows[i + 1], features)))

\* The rows, validIndices and standardized rows that computePCA builds
\* before its covariance step.
computePCARows(rows, features) ==
    LET built == buildCompleteRows(rows, features, 0,
                                   [matrix |-> <<>>, validIndices |-> <<>>])
    IN  IF Len(built.matrix) = 0
        THEN [matrix |-> <<>>, validIndices |-> <<>>, normalized |-> <<>>]
        ELSE [matrix |-> built.matrix, validIndices |-> built.validIndices,
              normalized |-> normalize(built.matrix, features)]

\* return { projection, validIndices, varExplained, features }
computePCAPower(rows, features) ==
    LET pre == computePCARows(rows, features)
    IN  IF Len(pre.matrix) = 0
        THEN [points |-> 0, validIndices |-> <<>>,
              varExplained |-> FALSE, features |-> FALSE]
        ELSE [points |-> Len(pre.normalized),
              validIndices |-> pre.validIndices,
              varExplained |-> TRUE, features |-> TRUE]

\* ------------------------------------------------------- reduction engines
\* App.jsx passes the eight continuous features; the model keeps two of them.
continuousFeatures == <<"age", "BMI">>

\* A slip: the guard looks at the dataset instead of the surviving rows.
computePCAGuardingData(rows, features) ==
    LET pre == preprocessData(rows, features)
    IN  IF Len(rows) = 0
        THEN [points |-> 0, validIndices |-> <<>>,
              varExplained |-> FALSE, features |-> FALSE]
        ELSE [points |-> Len(rows),
              validIndices |-> pre.validIndices,
              varExplained |-> TRUE, features |-> TRUE]

\* computePCA: preprocess, then project with ml-pca. The coordinates are not
\* modelled: a result carries its number of points, its validIndices, and
\* whether it has the varExplained and features fields.
computePCA(rows, features) ==
    LET pre == preprocessData(rows, features)
    IN  IF Len(pre.normalized) = 0
        THEN [points |-> 0, validIndices |-> <<>>,
              varExplained |-> FALSE, features |-> FALSE]
        ELSE [points |-> Len(pre.normalized),
              validIndices |-> pre.validIndices,
              varExplained |-> TRUE, features |-> TRUE]

\* computeTSNE: preprocess, then embed; no varExplained in the result.
computeTSNE(rows, features) ==
    LET pre == preprocessData(rows, features)
    IN  IF Len(pre.normalized) = 0
        THEN [points |-> 0, validIndices |-> <<>>,
              varExplained |-> FALSE, features |-> FALSE]
        ELSE [points |-> Len(pre.normalized),
              validIndices |-> pre.validIndices,
              varExplained |-> FALSE, features |-> TRUE]

\* App.jsx imports computeUMAP from utils/dataLoader, which exports no such
\* function: the second engine it does export is computeTSNE. Where the name
\* is bound at all, it is bound to an engine of that shape.
computeUMAP(rows, features) == computeTSNE(rows, features)

\* ----------------------------------------------------------------- cohorts
\* The datasets the application is loaded with: one whose middle record has
\* every clustering feature missing, one with partially missing records, one
\* with no usable record at all.
Cohorts ==
    { << [age |-> 0, BMI |-> 0, male |-> 1],
         [age |-> Null, BMI |-> Null, male |-> 0],
         [age |-> 1, BMI |-> 0, male |-> 1] >>,
      << [age |-> 0, BMI |-> 1, male |-> 0],
         [age |-> Null, BMI |-> 1, male |-> 1],
         [age |-> 1, BMI |-> 0, male |-> Null] >>,
      << [age |-> Null, BMI |-> NotANumber, male |-> 0] >> }

numericCharts == {"age", "BMI"}
categoricalCharts == {"male"}
colorFeatures == {"TenYearCHD", "age"}
Methods == {"PCA", "UMAP"}

\* ----------------------------------------------------------------- history
Event(op, view, arg) == [op |-> op, view |-> view, arg |-> arg]

Push(e) == IF Len(trail) < 2 THEN Append(trail, e) ELSE Append(Tail(trail), e)

Record(op, view, arg) == trail' = Push(Event(op, view, arg))

\* ------------------------------------------------------------ aggregators
\* A statistic is a fraction num / den, or not a number (undefined, NaN).
undefinedNum == [defined |-> FALSE, num |-> 0, den |-> 1]
zeroNum == [defined |-> TRUE, num |-> 0, den |-> 1]

\* The index array as the views emit it: ascending original indices.
RECURSIVE indexArray(_)
indexArray(S) ==
    IF S = {} THEN <<>>
    ELSE LET lo == CHOOSE i \in S : \A k \in S : i <= k
         IN  <<lo>> \o indexArray(S \ {lo})

\* indices.map(i => data[i])
subsetOf(rows, indices) == [k \in 1..Len(indices) |-> rows[indices[k] + 1]]

\* d3.mean(subset, d => d[f]): null, undefined and NaN values are skipped;
\* the result is undefined when no value is left.
RECURSIVE sumPresent(_, _)
sumPresent(subset, f) ==
    IF subset = <<>> THEN 0
    ELSE (IF Missing(Head(subset)[f]) THEN 0 ELSE Head(subset)[f]) + sumPresent(Tail(subset), f)

RECURSIVE countPresent(_, _)
countPresent(subset, f) ==
    IF subset = <<>> THEN 0
    ELSE (IF Missing(Head(subset)[f]) THEN 0 ELSE 1) + countPresent(Tail(subset), f)

d3mean(subset, f) ==
    IF countPresent(subset, f) = 0 THEN undefinedNum
    ELSE [defined |-> TRUE, num |-> sumPresent(subset, f), den |-> countPresent(subset, f)]

\* subset.filter(d => d[f] === 1).length
RECURSIVE countTrue(_, _)
countTrue(subset, f) ==
    IF subset = <<>> THEN 0
    ELSE (IF Head(subset)[f] = 1 THEN 1 ELSE 0) + countTrue(Tail(subset), f)

\* A slip: the denominator counts only the records whose flag is 0 or 1.
RECURSIVE countFlagged(_, _)
countFlagged(subset, f) ==
    IF subset = <<>> THEN 0
    ELSE (IF Head(subset)[f] \in {0, 1} THEN 1 ELSE 0) + countFlagged(Tail(subset), f)

pctTrueOfFlagged(subset, f) ==
    IF countFlagged(subset, f) = 0 THEN undefinedNum
    ELSE [defined |-> TRUE, num |-> 100 * countTrue(subset, f), den |-> countFlagged(subset, f)]

\* (subset.filter(d => d[f] === 1).length / subset.length) * 100
pctTrue(subset, f) ==
    IF Len(subset) = 0 THEN undefinedNum
    ELSE [defined |-> TRUE, num |-> 100 * countTrue(subset, f), den |-> Len(subset)]

\* The const stats = { ... } of SubgroupSummary; of the four means and five
\* percentages, all written the same way, the model keeps avgAge and pctDiabetes.
summaryStats(subset) ==
    [placeholder |-> FALSE, n |-> Len(subset),
     avgAge |-> d3mean(subset, "age"), pctDiabetes |-> pctTrue(subset, "diabetes")]

summaryPlaceholder ==
    [placeholder |-> TRUE, n |-> 0, avgAge |-> undefinedNum, pctDiabetes |-> undefinedNum]

\* A slip: no guard for the empty selection.
SubgroupSummaryUnguarded(rows, indices) == summaryStats(subsetOf(rows, indices))

\* if (!data || selectedIndices.length === 0) return <placeholder>
SubgroupSummary(rows, indices) ==
    IF Len(indices) = 0 THEN summaryPlaceholder
    ELSE summaryStats(subsetOf(rows, indices))

\* x || 0
orZero(x) == IF ~x.defined \/ x.num = 0 THEN zeroNum ELSE x

nullStats == [null |-> TRUE, avgAge |-> undefinedNum, pctDiabetes |-> undefinedNum]

\* computeStats of SubgroupComparison (the indices are within the dataset,
\* so .filter(d => d) removes nothing).
computeStats(rows, indices) ==
    IF Len(indices) = 0 THEN nullStats
    ELSE [null |-> FALSE,
          avgAge |-> orZero(d3mean(subsetOf(rows, indices), "age")),
          pctDiabetes |-> orZero(pctTrue(subsetOf(rows, indices), "diabetes"))]

\* selectedIndices.length > 0 ? computeStats(selectedIndices) : null
statsIfAny(rows, indices) == IF Len(indices) > 0 THEN computeStats(rows, indices) ELSE nullStats

\* data.map((_, i) => i)
allIndices(rows) == [k \in 1..Len(rows) |-> k - 1]

\* ------------------------------------------------------------------- App
\* The state of App after construction (the useState initial values).
AppInit ==
    /\ data = [loaded |-> FALSE, rows |-> <<>>]
    /\ metadata = FALSE
    /\ projection = [by |-> "none", n |-> 0]
    /\ validIndices = <<>>
    /\ pcaInfo = [by |-> "none", varExplained |-> FALSE, features |-> FALSE]
    /\ selectedIndices = {}
    /\ pinnedIndices = {}
    /\ colorFeature = "TenYearCHD"
    /\ clusteringMethod = "PCA"
    /\ isComputing = FALSE
    /\ timers = <<>>
    /\ trail = <<>>
    /\ reductionRuns = 0
    /\ methodChanges = 0

\* Nothing has been returned yet by a function checked on its own.
noResult == [done |-> FALSE, by |-> "none", threw |-> FALSE, projected |-> FALSE, points |-> 0,
             matrix |-> <<>>, validIndices |-> <<>>, normalized |-> <<>>]

PreIdle == pdata = <<>> /\ pfeatures = <<>> /\ pres = noResult

noStats == [done |-> FALSE, summary |-> summaryPlaceholder,
            selectedStats |-> nullStats, pinnedStats |-> nullStats, fullStats |-> nullStats]

AggIdle == aggIn = [rows |-> <<>>, indices |-> {}] /\ aggOut = noStats

noStd == [done |-> FALSE, mean |-> 0, variance |-> 0, std |-> 0, entries |-> <<>>]

StdIdle == stdIn = <<>> /\ stdOut = noStd

\* The three numerical checks have not started.
RiskIdle == risk = [done |-> FALSE]
TsneIdle == tsne = [phase |-> "idle"]
AxesIdle == pca = [phase |-> "idle"]

Init ==
    /\ AppInit
    /\ PreIdle
    /\ AggIdle
    /\ StdIdle
    /\ RiskIdle
    /\ TsneIdle
    /\ AxesIdle

\* The controls and the views exist only once data and metadata are stored
\* (before that App returns the "Loading..." screen).
Rendered == data.loaded /\ metadata

\* setProjection / setValidIndices / setPcaInfo with the result of the engine
\* of method m (the tag "by" remembers which engine's output is stored).
storeResult(m, res) ==
    /\ projection' = [by |-> m, n |-> res.points]
    /\ validIndices' = res.validIndices
    /\ pcaInfo' = [by |-> m, varExplained |-> res.varExplained, features |-> res.features]

\* A slip: the effect also resets the pin.
computeProjectionClearingPin(m, rows) ==
    /\ isComputing' = TRUE
    /\ selectedIndices' = {}
    /\ timers' = Append(timers, [method |-> m, rows |-> rows])
    /\ pinnedIndices' = {}

\* A slip: the timer callback reads the method of the previous render.
computeProjectionStale(m, rows) ==
    /\ isComputing' = TRUE
    /\ selectedIndices' = {}
    /\ timers' = Append(timers, [method |-> clusteringMethod, rows |-> rows])
    /\ UNCHANGED pinnedIndices

\* The recompute effect, run after a render in which clusteringMethod or data
\* changed (React runs a pending effect before it handles the next event).
computeProjection(m, rows) ==
    /\ isComputing' = TRUE
    /\ selectedIndices' = {}
    /\ timers' = Append(timers, [method |-> m, rows |-> rows])
    /\ UNCHANGED pinnedIndices

\* The load effect: the dataset arrives, PCA is computed synchronously and
\* stored; data changed, so the recompute effect runs.
Load(c) ==
    /\ ~data.loaded
    /\ data' = [loaded |-> TRUE, rows |-> c]
    /\ metadata' = TRUE
    /\ storeResult("PCA", computePCA(c, continuousFeatures))
    /\ computeProjection(clusteringMethod, c)
    /\ reductionRuns' = reductionRuns + 1
    /\ Record("load", "-", {})
    /\ UNCHANGED <<colorFeature, clusteringMethod, methodChanges, preVars>>

\* A slip: the selector is never disabled.
methodSelectorAlwaysEnabled == TRUE

\* <select ... disabled={isComputing}>
methodSelectorEnabled == ~isComputing

\* onChange of the method selector, and the recompute effect it triggers.
ChangeMethod(m) ==
    /\ Rendered
    /\ methodSelectorEnabled
    /\ m # clusteringMethod
    /\ methodChanges < MaxChanges
    /\ clusteringMethod' = m
    /\ computeProjection(m, data.rows)
    /\ methodChanges' = methodChanges + 1
    /\ Record("method", "-", {})
    /\ UNCHANGED <<data, metadata, projection, validIndices, pcaInfo,
                   colorFeature, reductionRuns, preVars>>

\* A slip: the selection is cleared when the result is stored.
TimerPCAClearing ==
    /\ timers # <<>>
    /\ Head(timers).method = "PCA"
    /\ storeResult("PCA", computePCA(Head(timers).rows, continuousFeatures))
    /\ isComputing' = FALSE
    /\ timers' = Tail(timers)
    /\ reductionRuns' = reductionRuns + 1
    /\ Record("timer", "-", {})
    /\ selectedIndices' = {}
    /\ UNCHANGED <<data, metadata, pinnedIndices, colorFeature,
                   clusteringMethod, methodChanges, preVars>>

\* A slip: the pin is cleared when the result is stored.
TimerPCAClearingPin ==
    /\ timers # <<>>
    /\ Head(timers).method = "PCA"
    /\ storeResult("PCA", computePCA(Head(timers).rows, continuousFeatures))
    /\ isComputing' = FALSE
    /\ timers' = Tail(timers)
    /\ reductionRuns' = reductionRuns + 1
    /\ Record("timer", "-", {})
    /\ pinnedIndices' = {}
    /\ UNCHANGED <<data, metadata, selectedIndices, colorFeature,
                   clusteringMethod, methodChanges, preVars>>

\* The 50 ms timer of a recomputation whose closure holds 'PCA'.
TimerPCA ==
    /\ timers # <<>>
    /\ Head(timers).method = "PCA"
    /\ storeResult("PCA", computePCA(Head(timers).rows, continuousFeatures))
    /\ isComputing' = FALSE
    /\ timers' = Tail(timers)
    /\ reductionRuns' = reductionRuns + 1
    /\ Record("timer", "-", {})
    /\ UNCHANGED <<data, metadata, selectedIndices, pinnedIndices, colorFeature,
                   clusteringMethod, methodChanges, preVars>>

\* The timer of a recomputation whose closure holds 'UMAP', where the call
\* completes.
TimerUMAP ==
    /\ timers # <<>>
    /\ Head(timers).method = "UMAP"
    /\ storeResult("UMAP", computeUMAP(Head(timers).rows, continuousFeatures))
    /\ isComputing' = FALSE
    /\ timers' = Tail(timers)
    /\ reductionRuns' = reductionRuns + 1
    /\ Record("timer", "-", {})
    /\ UNCHANGED <<data, metadata, selectedIndices, pinnedIndices, colorFeature,
                   clusteringMethod, methodChanges, preVars>>

\* The same timer where computeUMAP is not bound to a function: the call
\* throws inside the callback, and nothing after it (the three stores and
\* setIsComputing(false)) is executed.
TimerUMAPThrows ==
    /\ timers # <<>>
    /\ Head(timers).method = "UMAP"
    /\ timers' = Tail(timers)
    /\ Record("timerThrew", "-", {})
    /\ UNCHANGED <<data, metadata, projection, validIndices, pcaInfo, selectedIndices,
                   pinnedIndices, colorFeature, clusteringMethod, isComputing,
                   reductionRuns, methodChanges, preVars>>

\* A slip: the brushed indices are merged into the selection.
handleBrushMerge(indices) == selectedIndices' = selectedIndices \cup indices /\ UNCHANGED pinnedIndices

\* setSelectedIndices(indices)
handleBrush(indices) == selectedIndices' = indices /\ UNCHANGED pinnedIndices

\* A slip: the selection is added to the pin instead of replacing it.
handlePinMerge == pinnedIndices' = pinnedIndices \cup selectedIndices /\ UNCHANGED selectedIndices

\* setPinnedIndices([...selectedIndices])
handlePin == pinnedIndices' = selectedIndices /\ UNCHANGED selectedIndices

\* setPinnedIndices([])
handleClearPin == pinnedIndices' = {} /\ UNCHANGED selectedIndices

\* A slip: clearing the selection clears the pin too.
handleClearSelectionBoth == selectedIndices' = {} /\ pinnedIndices' = {}

\* setSelectedIndices([])
handleClearSelection == selectedIndices' = {} /\ UNCHANGED pinnedIndices

IsNumber(v) == v >= 0

\* A slip: the chart emits the 1-based position of a record.
chartBrushedFromOne(rows, f, x0d, x1d) ==
    {i + 1 : i \in {k \in 0..(Len(rows) - 1) :
        /\ rows[k + 1][f] # Null
        /\ IsNumber(rows[k + 1][f])
        /\ 2 * rows[k + 1][f] >= x0d
        /\ 2 * rows[k + 1][f] <= x1d}}

\* FeatureDistribution, numeric feature: end of a brushX over [x0, x1]
\* (x0d, x1d are twice the inverted bounds, so a range can fall between values).
chartBrushed(rows, f, x0d, x1d) ==
    {i \in 0..(Len(rows) - 1) :
        /\ rows[i + 1][f] # Null
        /\ IsNumber(rows[i + 1][f])
        /\ 2 * rows[i + 1][f] >= x0d
        /\ 2 * rows[i + 1][f] <= x1d}

\* FeatureDistribution, categorical feature: click on the bar of a value.
barClicked(rows, f, value) == {i \in 0..(Len(rows) - 1) : rows[i + 1][f] = value}

\* A slip: a point is identified by its row number.
pointsByRow == [r \in 1..projection.n |-> [dataIndex |-> r - 1]]

\* PCAView: projection.map((p, i) => ({ x, y, dataIndex: validIndices[i], ... }))
points == [r \in 1..projection.n |-> [dataIndex |-> validIndices[r]]]

\* PCAView: the dataIndex of the points in the rectangle (any set of points
\* is taken as enclosable by a rectangle).
scatterBrushed(S) == {points[r].dataIndex : r \in S}

\* PCAView draws its svg (and brush) only when it has points and is not computing.
scatterDrawn == projection.n > 0 /\ ~isComputing

\* What a brush, pin or clear handler never touches.
handlerFrame == <<data, metadata, projection, validIndices, pcaInfo, colorFeature,
                  clusteringMethod, isComputing, timers, reductionRuns, methodChanges, preVars>>

ChartBrush(f, x0d, x1d) ==
    /\ Rendered
    /\ x0d <= x1d
    /\ handleBrush(chartBrushed(data.rows, f, x0d, x1d))
    /\ Record("brush", "chart", chartBrushed(data.rows, f, x0d, x1d))
    /\ UNCHANGED handlerFrame

BarClick(f, value) ==
    /\ Rendered
    /\ handleBrush(barClicked(data.rows, f, value))
    /\ Record("brush", "chart", barClicked(data.rows, f, value))
    /\ UNCHANGED handlerFrame

\* A brush gesture that ends with no selection: onBrush([]).
ChartBrushEmpty ==
    /\ Rendered
    /\ handleBrush({})
    /\ Record("brush", "chart", {})
    /\ UNCHANGED handlerFrame

ScatterBrush(S) ==
    /\ Rendered
    /\ scatterDrawn
    /\ handleBrush(scatterBrushed(S))
    /\ Record("brush", "scatter", scatterBrushed(S))
    /\ UNCHANGED handlerFrame

\* A slip: the Pin button is never disabled.
pinAlwaysEnabled == TRUE

\* <button onClick={handlePin} disabled={selectedIndices.length === 0}>
pinEnabled == selectedIndices # {}

\* <button onClick={handleClearPin} disabled={pinnedIndices.length === 0}>
clearPinEnabled == pinnedIndices # {}

\* <button onClick={handleClearSelection} disabled={selectedIndices.length === 0}>
clearSelectionEnabled == selectedIndices # {}

Pin ==
    /\ Rendered
    /\ pinEnabled
    /\ handlePin
    /\ Record("pin", "-", {})
    /\ UNCHANGED handlerFrame

ClearPin ==
    /\ Rendered
    /\ clearPinEnabled
    /\ handleClearPin
    /\ Record("clearPin", "-", {})
    /\ UNCHANGED handlerFrame

ClearSelection ==
    /\ Rendered
    /\ clearSelectionEnabled
    /\ handleClearSelection
    /\ Record("clearSelection", "-", {})
    /\ UNCHANGED handlerFrame

\* onChange of the "Color by" selector.
SetColorFeature(f) ==
    /\ Rendered
    /\ f # colorFeature
    /\ colorFeature' = f
    /\ Record("color", "-", {})
    /\ UNCHANGED <<data, metadata, projection, validIndices, pcaInfo, selectedIndices,
                   pinnedIndices, clusteringMethod, isComputing, timers, reductionRuns,
                   methodChanges, preVars>>

Next ==
    \/ \E c \in Cohorts : Load(c)
    \/ \E m \in Methods : ChangeMethod(m)
    \/ TimerPCA
    \/ TimerUMAP
    \/ TimerUMAPThrows
    \/ \E f \in numericCharts, x0d \in 0..(2 * MaxVal), x1d \in 0..(2 * MaxVal) : ChartBrush(f, x0d, x1d)
    \/ \E f \in categoricalCharts, value \in Vals : BarClick(f, value)
    \/ ChartBrushEmpty
    \/ \E S \in SUBSET (1..Len(validIndices)) : ScatterBrush(S)
    \/ Pin
    \/ ClearPin
    \/ ClearSelection
    \/ \E f \in colorFeatures : SetColorFeature(f)

Spec == Init /\ [][Next]_vars

\* A callback handed to setTimeout is eventually run by the browser: the
\* steps that take the oldest pending callback off the list are the steps of
\* TimerPCA, TimerUMAP and TimerUMAPThrows, and one of them is enabled
\* whenever a callback is pending.
TimerFires == timers # <<>> /\ timers' = Tail(timers)

SpecLive == Spec /\ WF_timers(TimerFires)

\* ------------------------------------------- the preprocessor on its own
\* A cell of either feature may be null; the non-numeric strings that the
\* loader lets through are drawn for one of the two features.
Recs == [age : Cells, BMI : Vals \cup {Null}]
Datasets == UNION {[1..n -> Recs] : n \in 0..MaxRecords}

\* A literal dataset: ages 40, missing, 60, every BMI present.
AgeFixture ==
    << [age |-> 40, BMI |-> 1], [age |-> Null, BMI |-> 0], [age |-> 60, BMI |-> 1] >>
FeatureLists == {<<>>, <<"age">>, <<"BMI">>, <<"age", "BMI">>, <<"BMI", "age">>}

InitPre ==
    /\ AppInit
    /\ AggIdle
    /\ StdIdle
    /\ RiskIdle
    /\ TsneIdle
    /\ AxesIdle
    /\ pdata \in Datasets \cup {AgeFixture}
    /\ pfeatures \in FeatureLists
    /\ pres = noResult

\* What a call leaves behind: the rows it built and, for an engine, the
\* number of projection points it returned.
preResult(by, pre) ==
    [done |-> TRUE, by |-> by, threw |-> FALSE, projected |-> FALSE, points |-> 0,
     matrix |-> pre.matrix, validIndices |-> pre.validIndices, normalized |-> pre.normalized]

engineResult(by, pre, res) ==
    [done |-> TRUE, by |-> by, threw |-> FALSE, projected |-> TRUE, points |-> res.points,
     matrix |-> pre.matrix, validIndices |-> res.validIndices, normalized |-> pre.normalized]

Preprocess ==
    /\ ~pres.done
    /\ pres' = preResult("preprocessData", preprocessData(pdata, pfeatures))
    /\ UNCHANGED <<pdata, pfeatures, appVars, aggIn, aggOut, stdIn, stdOut, risk, tsne, pca>>

\* A call of a reduction engine exported by the first half of dataLoader.js
\* (computePCA on ml-pca, computeTSNE); neither has a throw statement.
Reduce(m) ==
    /\ ~pres.done
    /\ pres' = engineResult(m, preprocessData(pdata, pfeatures),
                            IF m = "PCA" THEN computePCA(pdata, pfeatures)
                            ELSE computeTSNE(pdata, pfeatures))
    /\ UNCHANGED <<pdata, pfeatures, appVars, aggIn, aggOut, stdIn, stdOut, risk, tsne, pca>>

\* The same call on the power-iteration computePCA, which filters and
\* standardizes the rows itself and projects every row it kept.
PreprocessPower ==
    /\ ~pres.done
    /\ pres' = engineResult("computePCA", computePCARows(pdata, pfeatures),
                            computePCAPower(pdata, pfeatures))
    /\ UNCHANGED <<pdata, pfeatures, appVars, aggIn, aggOut, stdIn, stdOut, risk, tsne, pca>>

NextPre ==
    \/ Preprocess
    \/ Reduce("PCA")
    \/ Reduce("tSNE")
    \/ PreprocessPower

SpecPre == InitPre /\ [][NextPre]_vars

\* ------------------------------------------- the aggregators on their own
FlagCells == {Null, 0, 1, 2}
AggRecs == [age : Vals \cup {Null}, diabetes : FlagCells]
AggDatasets == UNION {[1..n -> AggRecs] : n \in 0..MaxRecords}

InitAgg ==
    /\ AppInit
    /\ PreIdle
    /\ StdIdle
    /\ RiskIdle
    /\ TsneIdle
    /\ AxesIdle
    /\ \E rows \in AggDatasets, S \in SUBSET (0..(MaxRecords - 1)) :
          /\ S \subseteq 0..(Len(rows) - 1)
          /\ aggIn = [rows |-> rows, indices |-> S]
    /\ aggOut = noStats

\* The summary for the index set as Selection, and the comparison's three
\* aggregations with the index set as Selection and as Pin.
Aggregate ==
    /\ ~aggOut.done
    /\ aggOut' = [done |-> TRUE,
                  summary |-> SubgroupSummary(aggIn.rows, indexArray(aggIn.indices)),
                  selectedStats |-> statsIfAny(aggIn.rows, indexArray(aggIn.indices)),
                  pinnedStats |-> statsIfAny(aggIn.rows, indexArray(aggIn.indices)),
                  fullStats |-> computeStats(aggIn.rows, allIndices(aggIn.rows))]
    /\ UNCHANGED <<aggIn, appVars, pdata, pfeatures, pres, stdIn, stdOut, risk, tsne, pca>>

NextAgg == Aggregate

SpecAgg == InitAgg /\ [][NextAgg]_vars

\* ------------------------------------ standardization in floating point
\* Lines 97-112 of preprocessData on one column, in binary floating point with
\* round-to-nearest, ties-to-even, as JavaScript numbers have it, but with
\* MantissaBits significant bits in place of 53. A number is held as an
\* integer count of units of 2^-FracBits, the spacing of the smallest floats.
Unit == 2 ^ FracBits

\* The scale of the non-negative number a / den units: its floats are spaced
\* 2^sh units apart (sh = 0 for the smallest, evenly spaced floats). No
\* number computed here reaches the largest scale, MaxShift.
shiftOf(a, den) ==
    CHOOSE sh \in 0..MaxShift :
        /\ a < 2 ^ (MantissaBits + sh) * den
        /\ sh = 0 \/ a >= 2 ^ (MantissaBits + sh - 1) * den

\* The float nearest to a / den units (a >= 0, den > 0), ties to even.
nearest(a, den) ==
    LET u == 2 ^ shiftOf(a, den)
        lo == (a \div (den * u)) * u
    IN  IF 2 * (a - lo * den) < u * den THEN lo
        ELSE IF 2 * (a - lo * den) > u * den THEN lo + u
        ELSE IF (lo \div u) % 2 = 0 THEN lo
        ELSE lo + u

\* The rounded value of num / den units (den > 0).
fl(num, den) == IF num < 0 THEN -nearest(-num, den) ELSE nearest(num, den)

flAdd(x, y) == fl(x + y, 1)
flSub(x, y) == fl(x - y, 1)
flMul(x, y) == fl(x * y, Unit)
flDiv(x, y) == IF y < 0 THEN fl(-(x * Unit), -y) ELSE fl(x * Unit, y)

\* Math.sqrt: the float nearest to the square root (x >= 0); the square
\* root of a float is never halfway between two floats.
flSqrt(x) ==
    LET sh == CHOOSE k \in 0..MaxShift :
                  /\ x * Unit < 2 ^ (MantissaBits + k) * 2 ^ (MantissaBits + k)
                  /\ k = 0 \/ x * Unit >= 2 ^ (MantissaBits + k - 1) * 2 ^ (MantissaBits + k - 1)
        u == 2 ^ sh
        lo == u * (CHOOSE m \in 0..(2 ^ MantissaBits - 1) :
                      /\ (m * u) * (m * u) <= x * Unit
                      /\ x * Unit < ((m + 1) * u) * ((m + 1) * u))
    IN  IF 4 * x * Unit <= (2 * lo + u) * (2 * lo + u) THEN lo ELSE lo + u

\* matrix.reduce((acc, row) => acc + row[j], 0)
RECURSIVE flSum(_, _)
flSum(col, acc) == IF col = <<>> THEN acc ELSE flSum(Tail(col), flAdd(acc, Head(col)))

\* sum / matrix.length
flMean(col) == fl(flSum(col, 0), Len(col))

\* matrix.reduce((acc, row) => acc + Math.pow(row[j] - means[j], 2), 0)
RECURSIVE flSumSq(_, _, _)
flSumSq(col, mean, acc) ==
    IF col = <<>> THEN acc
    ELSE flSumSq(Tail(col), mean,
                 flAdd(acc, flMul(flSub(Head(col), mean), flSub(Head(col), mean))))

\* ... / matrix.length
flVariance(col) == fl(flSumSq(col, flMean(col), 0), Len(col))

\* Math.sqrt(variance) || 1
flStd(col) == IF flSqrt(flVariance(col)) = 0 THEN Unit ELSE flSqrt(flVariance(col))

\* row.map((val, j) => (val - means[j]) / stds[j])
flNormalized(col) == [r \in 1..Len(col) |-> flDiv(flSub(col[r], flMean(col)), flStd(col))]

\* The columns: up to MaxRecords kept rows, each value a whole number that
\* is a float.
StdVals == {v * Unit : v \in 1..(2 ^ MantissaBits - 1)}
Columns == UNION {[1..n -> StdVals] : n \in 1..MaxRecords}

InitStd ==
    /\ AppInit
    /\ PreIdle
    /\ AggIdle
    /\ RiskIdle
    /\ TsneIdle
    /\ AxesIdle
    /\ stdIn \in Columns
    /\ stdOut = noStd

Standardize ==
    /\ ~stdOut.done
    /\ stdOut' = [done |-> TRUE, mean |-> flMean(stdIn), variance |-> flVariance(stdIn),
                  std |-> flStd(stdIn), entries |-> flNormalized(stdIn)]
    /\ UNCHANGED <<stdIn, appVars, pdata, pfeatures, pres, aggIn, aggOut, risk, tsne, pca>>

NextStd == Standardize

SpecStd == InitStd /\ [][NextStd]_vars

\* ------------------------------------------------ personal risk estimator
\* calculatedRisk of PersonalRiskCalculator, with one of its eight features:
\* distances.sort((a, b) => a.distance - b.distance) orders the records by
\* |user value - record value| (the division by the range and the square
\* root keep the order), and the sort is stable.
\* const k = 100
kNearest == 100

distanceKey(u, person) == IF u >= person.age THEN u - person.age ELSE person.age - u

RECURSIVE insertByDistance(_, _, _)
insertByDistance(u, person, sorted) ==
    IF sorted = <<>> THEN <<person>>
    ELSE IF distanceKey(u, person) < distanceKey(u, Head(sorted)) THEN <<person>> \o sorted
    ELSE <<Head(sorted)>> \o insertByDistance(u, person, Tail(sorted))

RECURSIVE sortByDistance(_, _)
sortByDistance(u, rows) ==
    IF rows = <<>> THEN <<>>
    ELSE insertByDistance(u, rows[Len(rows)], sortByDistance(u, SubSeq(rows, 1, Len(rows) - 1)))

\* distances.slice(0, k)
neighbors(u, rows) ==
    SubSeq(sortByDistance(u, rows), 1, IF Len(rows) < kNearest THEN Len(rows) ELSE kNearest)

\* neighbors.filter(n => n.hasCHD).length, hasCHD: person.TenYearCHD === 1
chdCount(u, rows) == Len(SelectSeq(neighbors(u, rows), LAMBDA person : person.TenYearCHD = 1))

\* (chdCount / k) * 100, as a fraction
riskPercentage(u, rows) == [num |-> 100 * chdCount(u, rows), den |-> kNearest]

RiskDatasets == UNION {[1..n -> [age : Vals, TenYearCHD : FlagCells]] : n \in 0..MaxRecords}

InitRisk ==
    /\ AppInit
    /\ PreIdle
    /\ AggIdle
    /\ StdIdle
    /\ TsneIdle
    /\ AxesIdle
    /\ \E rows \in RiskDatasets, u \in Vals :
          risk = [done |-> FALSE, rows |-> rows, user |-> u,
                  taken |-> <<>>, riskPercentage |-> [num |-> 0, den |-> 1]]

CalculateRisk ==
    /\ ~risk.done
    /\ risk' = [risk EXCEPT !.done = TRUE,
                            !.taken = neighbors(risk.user, risk.rows),
                            !.riskPercentage = riskPercentage(risk.user, risk.rows)]
    /\ UNCHANGED <<appVars, pdata, pfeatures, pres, aggIn, aggOut, stdIn, stdOut, tsne, pca>>

NextRisk == CalculateRisk

SpecRisk == InitRisk /\ [][NextRisk]_vars

\* ------------------------------------------- the power-iteration axes
\* computePCA (power-iteration version) after its row filter, for two
\* features, in exact arithmetic. The covariance of two standardized columns
\* is their correlation; a dataset is taken when that is a fraction. A
\* matrix or vector of fractions is held as integers over a positive common
\* scale, which no test below depends on. An axis is the unit vector along
\* dir, or a vector of NaN.
RECURSIVE gcd(_, _)
gcd(a, b) == IF b = 0 THEN a ELSE gcd(b, a % b)

\* The same direction with the smallest integers.
reduced(v) ==
    LET g == gcd(IF v[1] < 0 THEN -v[1] ELSE v[1], IF v[2] < 0 THEN -v[2] ELSE v[2])
    IN  IF g = 0 THEN v ELSE <<v[1] \div g, v[2] \div g>>

dotOf(v, w) == v[1] * w[1] + v[2] * w[2]

\* newPc[i] += M[i][j] * v[j]
timesVector(M, v) == <<dotOf(M[1], v), dotOf(M[2], v)>>

\* sum over the rows of normalized[k][i] * normalized[k][j], up to the
\* positive factor 1 / sqrt(ss_i * ss_j)
RECURSIVE crossSum(_, _, _, _)
crossSum(normalized, i, j, r) ==
    IF r > Len(normalized) THEN 0
    ELSE normalized[r][i].c * normalized[r][j].c + crossSum(normalized, i, j, r + 1)

\* sqrt(ss_1 * ss_2) where it is a whole number, 0 where it is not.
rootOfProduct(normalized) ==
    LET hi == IF normalized[1][1].ss > normalized[1][2].ss
              THEN normalized[1][1].ss ELSE normalized[1][2].ss
    IN  IF \E g \in 0..hi : g * g = normalized[1][1].ss * normalized[1][2].ss
        THEN CHOOSE g \in 0..hi : g * g = normalized[1][1].ss * normalized[1][2].ss
        ELSE 0

\* cov[i][j] = sum / normalized.length, times the scale sqrt(ss_1 * ss_2)
\* (times 1 when a column is constant: its standardized entries are all 0).
covariance(normalized) ==
    LET g == rootOfProduct(normalized)
        one == IF g = 0 THEN 1 ELSE g
    IN  << << IF normalized[1][1].ss = 0 THEN 0 ELSE one,
              IF g = 0 THEN 0 ELSE crossSum(normalized, 1, 2, 1) >>,
           << IF g = 0 THEN 0 ELSE crossSum(normalized, 1, 2, 1),
              IF normalized[1][2].ss = 0 THEN 0 ELSE one >> >>

nanAxis == [nan |-> TRUE, dir |-> <<0, 0>>]

\* One iteration of the first loop: newPc = cov * pc1; pc1 = newPc / norm.
\* A zero newPc has norm 0, and 0 / 0 is NaN.
powerStep(cov, axis) ==
    IF axis.nan THEN nanAxis
    ELSE IF timesVector(cov, axis.dir) = <<0, 0>> THEN nanAxis
    ELSE [nan |-> FALSE, dir |-> reduced(timesVector(cov, axis.dir))]

\* residualCov[i][j] = cov[i][j] - lambda1 * pc1[i] * pc1[j], with
\* lambda1 = pc1' cov pc1, times the scale (v.v)^2 for pc1 = v / |v|.
residual(cov, axis) ==
    LET v == axis.dir
        n1 == dotOf(v, v)
        l1 == dotOf(v, timesVector(cov, v))
    IN  [i \in 1..2 |-> [j \in 1..2 |-> cov[i][j] * n1 * n1 - l1 * v[i] * v[j]]]

\* newPc = residualCov * pc2; newPc -= (newPc . pc1) * pc1, times the scale v.v
candidate(res, first, second) ==
    LET w == reduced(timesVector(res, second.dir))
        v == first.dir
    IN  <<dotOf(v, v) * w[1] - dotOf(w, v) * v[1], dotOf(v, v) * w[2] - dotOf(w, v) * v[2]>>

\* norm < 1e-10: in exact arithmetic the candidate is the zero vector, or
\* its norm is of the size of the second eigenvalue. With pc1 NaN the norm
\* is NaN and the comparison is false.
normBelowTolerance(res, first, second) ==
    ~first.nan /\ ~second.nan /\ candidate(res, first, second) = <<0, 0>>

AxesDatasets ==
    {rows \in UNION {[1..n -> [age : Vals, BMI : Vals]] : n \in 1..MaxRecords} :
        LET z == computePCARows(rows, continuousFeatures).normalized
        IN  z[1][1].ss = 0 \/ z[1][2].ss = 0 \/ rootOfProduct(z) # 0}

\* pc2 = [0, 1]
seed2 == [nan |-> FALSE, dir |-> <<0, 1>>]

InitAxes ==
    /\ AppInit
    /\ PreIdle
    /\ AggIdle
    /\ StdIdle
    /\ RiskIdle
    /\ TsneIdle
    /\ \E rows \in AxesDatasets :
          pca = [phase |-> "first", iter |-> 0, rows |-> rows,
                 cov |-> covariance(computePCARows(rows, continuousFeatures).normalized),
                 pc1 |-> [nan |-> FALSE, dir |-> <<1, 0>>], pc2 |-> seed2,
                 broke |-> FALSE, finite |-> TRUE]

\* for (let iter = 0; iter < 50; iter++) { ... }
FirstAxisStep ==
    /\ pca.phase = "first"
    /\ pca.iter < PowerIterations1
    /\ pca' = [pca EXCEPT !.iter = pca.iter + 1, !.pc1 = powerStep(pca.cov, pca.pc1)]
    /\ UNCHANGED <<appVars, pdata, pfeatures, pres, aggIn, aggOut, stdIn, stdOut, risk, tsne>>

\* lambda1 and residualCov; the second loop starts from its seed.
Deflate ==
    /\ pca.phase = "first"
    /\ pca.iter = PowerIterations1
    /\ pca' = [pca EXCEPT !.phase = "second", !.iter = 0]
    /\ UNCHANGED <<appVars, pdata, pfeatures, pres, aggIn, aggOut, stdIn, stdOut, risk, tsne>>

\* A slip: the candidate is stored before the norm is tested.
secondAxisStoreFirst(state) ==
    IF normBelowTolerance(residual(state.cov, state.pc1), state.pc1, state.pc2)
    THEN [state EXCEPT !.phase = "explained", !.broke = TRUE, !.pc2 = nanAxis]
    ELSE [state EXCEPT !.iter = state.iter + 1,
                       !.pc2 = IF state.pc1.nan \/ state.pc2.nan THEN nanAxis
                               ELSE [nan |-> FALSE,
                                     dir |-> reduced(candidate(residual(state.cov, state.pc1),
                                                               state.pc1, state.pc2))]]

\* One iteration of the second loop: if (norm < 1e-10) break; else
\* pc2 = newPc / norm.
secondAxis(state) ==
    IF normBelowTolerance(residual(state.cov, state.pc1), state.pc1, state.pc2)
    THEN [state EXCEPT !.phase = "explained", !.broke = TRUE]
    ELSE [state EXCEPT !.iter = state.iter + 1,
                       !.pc2 = IF state.pc1.nan \/ state.pc2.nan THEN nanAxis
                               ELSE [nan |-> FALSE,
                                     dir |-> reduced(candidate(residual(state.cov, state.pc1),
                                                               state.pc1, state.pc2))]]

SecondAxisStep ==
    /\ pca.phase = "second"
    /\ pca.iter < PowerIterations2
    /\ pca' = secondAxis(pca)
    /\ UNCHANGED <<appVars, pdata, pfeatures, pres, aggIn, aggOut, stdIn, stdOut, risk, tsne>>

\* The loop ran out of iterations.
SecondAxisEnd ==
    /\ pca.phase = "second"
    /\ pca.iter = PowerIterations2
    /\ pca' = [pca EXCEPT !.phase = "explained"]
    /\ UNCHANGED <<appVars, pdata, pfeatures, pres, aggIn, aggOut, stdIn, stdOut, risk, tsne>>

\* varExplained = lambda / totalVar * 100 and the projection: finite unless
\* an axis is NaN or the total variance is 0.
VarianceExplained ==
    /\ pca.phase = "explained"
    /\ pca' = [pca EXCEPT !.phase = "done",
                          !.finite = /\ ~pca.pc1.nan
                                     /\ ~pca.pc2.nan
                                     /\ pca.cov[1][1] + pca.cov[2][2] # 0]
    /\ UNCHANGED <<appVars, pdata, pfeatures, pres, aggIn, aggOut, stdIn, stdOut, risk, tsne>>

NextAxes ==
    \/ FirstAxisStep
    \/ Deflate
    \/ SecondAxisStep
    \/ SecondAxisEnd
    \/ VarianceExplained

SpecAxes == InitAxes /\ [][NextAxes]_vars

\* --------------------------------------------------------------- t-SNE
\* computeTSNE after preprocessData, for the row counts whose perplexity is
\* 0. A number is held as its class: "nan", "zero", or "pos" for a number of
\* at least 1e-100 ("inf" for x / 0). Two standardized rows are either
\* identical (squared distance 0) or apart (squared distance at least 4). A
\* point of the embedding is "finite" or "nan".
iterations == 1000
momentumSwitch == 250
recentreEvery == 10

\* Math.min(30, Math.floor(n / 3))
perplexity(n) == IF n \div 3 < 30 THEN n \div 3 ELSE 30

\* distances[i][j]
distances(n, apart) ==
    [i \in 1..n |-> [j \in 1..n |-> IF i # j /\ apart THEN "pos" ELSE "zero"]]

\* a + b
plus(a, b) ==
    IF a = "nan" \/ b = "nan" THEN "nan"
    ELSE IF a = "inf" \/ b = "inf" THEN "inf"
    ELSE IF a = "zero" /\ b = "zero" THEN "zero"
    ELSE "pos"

\* a / b
over(a, b) ==
    IF a = "nan" \/ b = "nan" THEN "nan"
    ELSE IF b = "zero" THEN (IF a = "zero" THEN "nan" ELSE "inf")
    ELSE IF b = "inf" THEN (IF a = "inf" THEN "nan" ELSE "zero")
    ELSE a

\* Math.max(x, 1e-100): NaN stays NaN.
atLeastFloor(x) == IF x = "zero" THEN "pos" ELSE x

\* if (sum === 0) sum = 1e-10
orSmall(x) == IF x = "zero" THEN "pos" ELSE x

RECURSIVE sumRow(_, _)
sumRow(row, j) == IF j = 0 THEN "zero" ELSE plus(sumRow(row, j - 1), row[j])

\* With perplexity 0, logU is -Infinity and Hdiff is +Infinity in each of
\* the 50 tries: beta doubles to 2^49 in the last try, where
\* Math.exp(-distances[i][j] * beta) is 1 for distance 0 and underflows to 0
\* for a distance of 4 or more. P[i][i] keeps its initial 0.
lastTry(dist, i) ==
    [j \in 1..Len(dist) |->
        IF i = j THEN "zero" ELSE IF dist[i][j] = "zero" THEN "pos" ELSE "zero"]

\* let sumP = 0; ... P[i][j] = Math.max(P[i][j] / sumP, 1e-100)
normalizedRow(row) ==
    [j \in 1..Len(row) |-> atLeastFloor(over(row[j], sumRow(row, Len(row))))]

\* P[i][j] = P[j][i] = (P[i][j] + P[j][i]) / (2 * n) for i < j
symmetrized(P) ==
    [i \in 1..Len(P) |-> [j \in 1..Len(P) |->
        IF i = j THEN P[i][j] ELSE plus(P[i][j], P[j][i])]]

affinities(n, apart) ==
    symmetrized([i \in 1..n |-> normalizedRow(lastTry(distances(n, apart), i))])

\* Q[i][j] = 1 / (1 + dist), 0 on the diagonal
rawQ(Y) ==
    [i \in 1..Len(Y) |-> [j \in 1..Len(Y) |->
        IF i = j THEN "zero"
        ELSE IF Y[i] = "nan" \/ Y[j] = "nan" THEN "nan" ELSE "pos"]]

\* if (sumQ === 0) sumQ = 1e-10; Q[i][j] = Math.max(Q[i][j] / sumQ, 1e-100)
lowAffinities(Y) ==
    LET sumQ == sumRow([i \in 1..Len(Y) |-> sumRow(rawQ(Y)[i], Len(Y))], Len(Y))
    IN  [i \in 1..Len(Y) |-> [j \in 1..Len(Y) |->
            atLeastFloor(over(rawQ(Y)[i][j], orSmall(sumQ)))]]

\* grad[i]: the sum over j # i of (P[i][j] - Q[i][j]) * Q[i][j] * sumQ * dy
gradient(P, Q, Y, i) ==
    IF \E j \in 1..Len(Y) :
          j # i /\ (P[i][j] = "nan" \/ Q[i][j] = "nan" \/ Y[i] = "nan" \/ Y[j] = "nan")
    THEN "nan" ELSE "finite"

\* Y[i][d] += momentum * iy - learningRate * gains[i][d] * gd
updated(P, Q, Y) ==
    [i \in 1..Len(Y) |->
        IF Y[i] = "nan" \/ gradient(P, Q, Y, i) = "nan" THEN "nan" ELSE "finite"]

\* Y[i] -= mean of Y
recentred(Y) ==
    [i \in 1..Len(Y) |-> IF \E j \in 1..Len(Y) : Y[j] = "nan" THEN "nan" ELSE "finite"]

\* A slip: the switch one iteration late.
momentumLate(iter) == IF iter <= momentumSwitch THEN 5 ELSE 8

\* iter < 250 ? 0.5 : 0.8, in tenths
momentum(iter) == IF iter < momentumSwitch THEN 5 ELSE 8

\* iter % 10 === 0
recentres(iter) == iter % recentreEvery = 0

InitTsne ==
    /\ AppInit
    /\ PreIdle
    /\ AggIdle
    /\ StdIdle
    /\ RiskIdle
    /\ AxesIdle
    /\ \E n \in {k \in 1..MaxRecords : perplexity(k) = 0}, apart \in BOOLEAN :
          /\ apart => n > 1
          /\ tsne = [phase |-> "start", n |-> n, apart |-> apart]

\* The P matrix and the random initial solution.
Affinities ==
    /\ tsne.phase = "start"
    /\ tsne' = [phase |-> "descent", n |-> tsne.n, apart |-> tsne.apart,
                P |-> affinities(tsne.n, tsne.apart),
                Y |-> [i \in 1..tsne.n |-> "finite"],
                Q |-> <<>>, iter |-> 0,
                used |-> 0, centred |-> FALSE,
                halves |-> 0, centrings |-> 0]
    /\ UNCHANGED <<appVars, pdata, pfeatures, pres, aggIn, aggOut, stdIn, stdOut, risk, pca>>

\* One iteration of the descent loop. used and centred record the momentum
\* the iteration used and whether it re-centred; halves and centrings count
\* the iterations that used 0.5 and that re-centred.
descend(state, Q) ==
    [state EXCEPT
        !.Q = Q,
        !.Y = IF recentres(state.iter) THEN recentred(updated(state.P, Q, state.Y))
              ELSE updated(state.P, Q, state.Y),
        !.used = momentum(state.iter),
        !.centred = recentres(state.iter),
        !.halves = state.halves + (IF momentum(state.iter) = 5 THEN 1 ELSE 0),
        !.centrings = state.centrings + (IF recentres(state.iter) THEN 1 ELSE 0),
        !.iter = state.iter + 1]

Descend ==
    /\ tsne.phase = "descent"
    /\ tsne.iter < iterations
    /\ tsne' = descend(tsne, lowAffinities(tsne.Y))
    /\ UNCHANGED <<appVars, pdata, pfeatures, pres, aggIn, aggOut, stdIn, stdOut, risk, pca>>

\* projection = Y.map(...)
TsneReturns ==
    /\ tsne.phase = "descent"
    /\ tsne.iter = iterations
    /\ tsne' = [tsne EXCEPT !.phase = "done"]
    /\ UNCHANGED <<appVars, pdata, pfeatures, pres, aggIn, aggOut, stdIn, stdOut, risk, pca>>

NextTsne ==
    \/ Affinities
    \/ Descend
    \/ TsneReturns

SpecTsne == InitTsne /\ [][NextTsne]_vars

\* ================================================================ claims
\* The event of the step just taken (every step of Next records its event).
stepOp == trail'[Len(trail')].op
lastOp == trail[Len(trail)].op

\* C1: last brush wins - right after a brush, from either view, Selection is
\* exactly the set that brush emitted, whatever the Selection was before
\* (in particular after an earlier brush of a different set).
C1_LastBrushWins ==
    (trail # <<>> /\ lastOp = "brush") => selectedIndices = trail[Len(trail)].arg

C1_Witness ==
    /\ Len(trail) = 2
    /\ trail[1].op = "brush" /\ trail[1].view = "scatter"
    /\ trail[2].op = "brush" /\ trail[2].view = "chart"
    /\ trail[1].arg # {} /\ trail[2].arg # {}
    /\ ~(trail[1].arg \subseteq trail[2].arg)
    /\ selectedIndices = trail[2].arg

\* C2: pin is a snapshot - right after brush(A), pin() the Pin is A, and a
\* brush(B) that follows brush(A), pin() ends with Pin = A and Selection = B.
C2_PinIsSnapshot ==
    [][/\ (Len(trail') = 2 /\ trail'[1].op = "brush" /\ trail'[2].op = "pin")
            => pinnedIndices' = trail'[1].arg
       /\ (/\ Len(trail) = 2 /\ trail[1].op = "brush" /\ trail[2].op = "pin"
           /\ Len(trail') = 2 /\ trail'[1] = trail[2] /\ trail'[2].op = "brush")
            => (pinnedIndices' = trail[1].arg /\ selectedIndices' = trail'[2].arg)]_vars

C2_Witness ==
    /\ Len(trail) = 2
    /\ trail[1].op = "pin"
    /\ trail[2].op = "brush"
    /\ pinnedIndices # {}
    /\ selectedIndices = trail[2].arg
    /\ selectedIndices # {}
    /\ ~(pinnedIndices \subseteq selectedIndices)
    /\ ~(selectedIndices \subseteq pinnedIndices)

\* C3: no coupling - a clearSelection step and a brush step leave Pin as it
\* was, and a clearPin step leaves Selection as it was.
C3_NoCoupling ==
    [][/\ stepOp = "clearSelection" => pinnedIndices' = pinnedIndices
       /\ stepOp = "brush" => pinnedIndices' = pinnedIndices
       /\ stepOp = "clearPin" => selectedIndices' = selectedIndices]_vars

C3_Witness ==
    /\ Len(trail) = 2
    /\ trail[1].op = "pin"
    /\ trail[2].op = "clearSelection"
    /\ pinnedIndices # {}
    /\ selectedIndices = {}

\* C4 as stated: Selection changes value only in a brush or clearSelection step.
C4_OnlyBrushOrClear ==
    [][selectedIndices' # selectedIndices => stepOp \in {"brush", "clearSelection"}]_vars

\* C4 amended: Selection changes value only in a brush step, a clearSelection
\* step, or a change of the reduction method, which empties it.
C4_SelectionMutators ==
    [][selectedIndices' # selectedIndices =>
          \/ stepOp \in {"brush", "clearSelection"}
          \/ (stepOp = "method" /\ selectedIndices' = {})]_vars

C4_Witness ==
    /\ Len(trail) = 2
    /\ trail[1].op = "brush"
    /\ trail[1].arg # {}
    /\ trail[2].op = "method"
    /\ selectedIndices = {}

\* C5: Pin changes value only in a pin step, where it becomes the Selection,
\* or in a clearPin step, where it becomes empty.
C5_PinMutators ==
    [][pinnedIndices' # pinnedIndices =>
          \/ (stepOp = "pin" /\ pinnedIndices' = selectedIndices)
          \/ (stepOp = "clearPin" /\ pinnedIndices' = {})]_vars

C5_Witness ==
    /\ Len(trail) = 2
    /\ trail[1].op = "method"
    /\ trail[2].op = "timer"
    /\ pinnedIndices # {}

\* C6 as stated: pin() can be performed whenever the controls are shown, an
\* empty Selection included.
C6_PinTotal == Rendered => pinEnabled

\* C6 amended: pin() is performed only with a non-empty Selection (the button
\* is disabled otherwise); it then makes Pin equal to that Selection, whatever
\* was pinned before, so it never yields an empty Pin.
C6_PinNeedsSelection ==
    [][stepOp = "pin" =>
          /\ selectedIndices # {}
          /\ pinnedIndices' = selectedIndices
          /\ pinnedIndices' # {}]_vars

C6_Witness ==
    /\ Len(trail) = 2
    /\ trail[1].op = "clearSelection"
    /\ trail[2].op = "brush"
    /\ Rendered
    /\ pinEnabled
    /\ pinnedIndices # {}
    /\ pinnedIndices # selectedIndices

\* C7: at most one deferred projection computation is pending, and one is
\* pending only while isComputing is set.
C7_OnePending == Len(timers) <= 1 /\ (timers # <<>> => isComputing)

C7_Witness ==
    /\ Len(timers) = 1
    /\ clusteringMethod = "UMAP"
    /\ Head(timers).method = "UMAP"
    /\ projection.by = "PCA"

\* C8: whenever data is loaded and isComputing is false, the stored projection
\* and pcaInfo were produced by the currently selected reduction method.
C8_NoStaleProjection ==
    (data.loaded /\ ~isComputing) =>
        (projection.by = clusteringMethod /\ pcaInfo.by = clusteringMethod)

C8_Witness ==
    /\ data.loaded
    /\ ~isComputing
    /\ methodChanges = 2
    /\ clusteringMethod = "PCA"
    /\ projection.by = "PCA"

\* C9 as stated: one reduction run for the dataset load and one per change of
\* the reduction method, never more.
C9_OneRunPerLoad ==
    reductionRuns <= (IF data.loaded THEN 1 ELSE 0) + methodChanges

\* C10: validIndices has as many entries as the matrix and the standardized
\* matrix have rows, and validIndices is strictly increasing.
C10_RowCount ==
    pres.done =>
        /\ Len(pres.validIndices) = Len(pres.matrix)
        /\ Len(pres.validIndices) = Len(pres.normalized)
        /\ \A a, b \in 1..Len(pres.validIndices) :
              a < b => pres.validIndices[a] < pres.validIndices[b]

C10_Witness ==
    /\ pres.done
    /\ Len(pdata) = 3
    /\ pfeatures = <<"age", "BMI">>
    /\ pres.validIndices = <<0, 2>>
    /\ Len(pres.matrix) = 2

\* C11: a record's original index is in validIndices if and only if at least
\* one of the requested features is non-missing for that record (records with
\* some features missing are kept, records with every feature missing are
\* dropped), whichever of the cited functions builds the rows.
C11_KeptIffSomePresent ==
    pres.done =>
        \A i \in 0..(Len(pdata) - 1) :
            (\E k \in 1..Len(pres.validIndices) : pres.validIndices[k] = i)
            <=> (\E j \in 1..Len(pfeatures) : ~Missing(pdata[i + 1][pfeatures[j]]))

\* The positions of the dataset that hold a value for feature f.
presentAt(f) == {i \in 1..Len(pdata) : ~Missing(pdata[i][f])}

\* The k-th smallest of those values, by counting.
kthSmallest(f, k) ==
    CHOOSE v \in {pdata[i][f] : i \in presentAt(f)} :
        /\ Cardinality({i \in presentAt(f) : pdata[i][f] < v}) < k
        /\ k <= Cardinality({i \in presentAt(f) : pdata[i][f] <= v})

\* Twice the median of feature f over the entire dataset.
expectedMedian2(f) ==
    LET n == Cardinality(presentAt(f))
    IN  IF n = 0 THEN 0
        ELSE IF n % 2 = 1 THEN 2 * kthSmallest(f, (n + 1) \div 2)
        ELSE kthSmallest(f, n \div 2) + kthSmallest(f, n \div 2 + 1)

\* C12: before standardization, each missing cell of a kept record holds the
\* median of that feature's non-missing values over the entire dataset (middle
\* value for an odd count, mean of the two middle values for an even count, 0
\* when the feature has no non-missing value), and each non-missing cell holds
\* the record's own value. (Matrix entries are stored doubled.)
C12_MedianImputed ==
    (pres.done /\ pres.by # "computePCA") =>
        \A r \in 1..Len(pres.matrix) : \A j \in 1..Len(pfeatures) :
            pres.matrix[r][j] =
                IF Missing(pdata[pres.validIndices[r] + 1][pfeatures[j]])
                THEN expectedMedian2(pfeatures[j])
                ELSE 2 * pdata[pres.validIndices[r] + 1][pfeatures[j]]

\* A kept record whose missing age was replaced by the mean 0.5 of the two
\* middle values 0 and 1, next to a feature value of its own.
C12_Witness ==
    /\ pres.done
    /\ pres.by = "preprocessData"
    /\ pfeatures = <<"age", "BMI">>
    /\ Len(pdata) = 3
    /\ \E r \in 1..Len(pres.matrix) :
          /\ Missing(pdata[pres.validIndices[r] + 1].age)
          /\ pres.matrix[r][1] = 1
          /\ pres.matrix[r][2] = 2 * pdata[pres.validIndices[r] + 1].BMI

\* C13: for a feature column whose values over the kept rows are all equal,
\* standardization uses divisor 1 and every standardized entry is exactly 0.
C13_ConstantColumnIsZero ==
    (stdOut.done /\ \A a, b \in 1..Len(stdIn) : stdIn[a] = stdIn[b]) =>
        /\ stdOut.std = Unit
        /\ \A r \in 1..Len(stdIn) : stdOut.entries[r] = 0

\* No record of the dataset has a value for any requested feature.
noSurvivor == \A i \in 1..Len(pdata) : \A j \in 1..Len(pfeatures) : Missing(pdata[i][pfeatures[j]])

\* C14: when no record survives filtering (an empty dataset included),
\* preprocessData returns an empty matrix and empty validIndices, and
\* computePCA and computeTSNE return an empty projection with empty
\* validIndices, without raising an error.
C14_NoSurvivorIsEmpty ==
    (pres.done /\ pres.by # "computePCA" /\ noSurvivor) =>
        /\ pres.matrix = <<>>
        /\ pres.validIndices = <<>>
        /\ pres.normalized = <<>>
        /\ ~pres.threw
        /\ pres.projected => pres.points = 0

\* computePCA has returned for three records that hold no value at all.
C14_Witness ==
    /\ pres.done
    /\ pres.by = "PCA"
    /\ Len(pdata) = 3
    /\ pfeatures = <<"age", "BMI">>
    /\ noSurvivor
    /\ pres.projected
    /\ pres.points = 0
    /\ pres.validIndices = <<>>

\* Seen from the application: a loaded dataset without any usable record is
\* rendered, with an empty projection and nothing to draw in the scatter view.
C14_EmptyCohortDisplayed ==
    (data.loaded /\ \A i \in 1..Len(data.rows) : allMissing(data.rows[i], continuousFeatures)) =>
        /\ Rendered
        /\ projection.n = 0
        /\ validIndices = <<>>
        /\ ~scatterDrawn

\* C15: a call with an empty feature-name list signals a contract violation
\* to the caller.
C15_EmptyFeaturesSignalled ==
    (pres.done /\ pfeatures = <<>>) => pres.threw

\* C16: whenever the scatter view draws points, there is one point per matrix
\* row (projection and validIndices have equal length), point r carries
\* validIndices[r] and not its row number, and the indices carried by the
\* points are, each once, those of the records that survived preprocessing.
C16_PointsCarryValidIndices ==
    scatterDrawn =>
        /\ projection.n = Len(validIndices)
        /\ Len(points) = Len(validIndices)
        /\ \A r \in 1..Len(points) : points[r].dataIndex = validIndices[r]
        /\ \A a, b \in 1..Len(points) : a # b => points[a].dataIndex # points[b].dataIndex
        /\ {points[r].dataIndex : r \in 1..Len(points)}
              = {i \in 0..(Len(data.rows) - 1) : ~allMissing(data.rows[i + 1], continuousFeatures)}

\* The second point of the scatter view, which stands for record 2, has been
\* brushed on its own.
C16_Witness ==
    /\ scatterDrawn
    /\ validIndices = <<0, 2>>
    /\ points[2].dataIndex = 2
    /\ lastOp = "brush"
    /\ trail[Len(trail)].view = "scatter"
    /\ selectedIndices = {2}

\* The selected records that hold an age, and the sum of their ages.
agedIn(S) == {i \in S : ~Missing(aggIn.rows[i + 1].age)}

RECURSIVE ageSum(_)
ageSum(S) ==
    IF S = {} THEN 0
    ELSE LET i == CHOOSE k \in S : TRUE
         IN  aggIn.rows[i + 1].age + ageSum(S \ {i})

\* The selected records whose diabetes flag is 1.
diabeticIn(S) == {i \in S : aggIn.rows[i + 1].diabetes = 1}

\* The statistic x is the fraction num / den.
isFraction(x, num, den) == x.defined /\ x.num * den = num * x.den

\* C17: for an empty index set the aggregator signals 'no data': the subgroup
\* summary shows its placeholder, and the comparison produces no statistics
\* for an empty Selection or an empty Pin.
C17_EmptySetNoData ==
    (aggOut.done /\ aggIn.indices = {}) =>
        /\ aggOut.summary.placeholder
        /\ aggOut.selectedStats.null
        /\ aggOut.pinnedStats.null

\* An empty index set over three records: placeholder and no subgroup
\* statistics, next to the statistics of the full cohort.
C17_Witness ==
    /\ aggOut.done
    /\ aggIn.indices = {}
    /\ Len(aggIn.rows) = 3
    /\ aggOut.summary.placeholder
    /\ aggOut.selectedStats.null
    /\ ~aggOut.fullStats.null

\* C18: for a non-empty index set, the mean of a numeric feature is the
\* arithmetic mean over the selected records whose value is present; when no
\* selected record has the feature the mean is undefined while the other
\* statistics are still computed. Stated of the summary and of computeStats.
C18_MeanOverPresent ==
    (aggOut.done /\ aggIn.indices # {}) =>
        \A st \in {aggOut.summary, aggOut.selectedStats, aggOut.pinnedStats} :
            /\ st.pctDiabetes.defined
            /\ IF agedIn(aggIn.indices) = {}
               THEN ~st.avgAge.defined
               ELSE isFraction(st.avgAge, ageSum(agedIn(aggIn.indices)),
                               Cardinality(agedIn(aggIn.indices)))

\* The same statement of the subgroup summary alone.
C18_SummaryMeanOverPresent ==
    (aggOut.done /\ aggIn.indices # {}) =>
        /\ ~aggOut.summary.placeholder
        /\ aggOut.summary.pctDiabetes.defined
        /\ IF agedIn(aggIn.indices) = {}
           THEN ~aggOut.summary.avgAge.defined
           ELSE isFraction(aggOut.summary.avgAge, ageSum(agedIn(aggIn.indices)),
                           Cardinality(agedIn(aggIn.indices)))

\* C19: for a non-empty index set of size k, a percentage statistic equals
\* count(value == 1) / k * 100 with the full k as denominator; a record whose
\* flag is missing or neither 0 nor 1 counts as not-true, so the percentage
\* lies in [0, 100]. Stated of the summary and of computeStats.
C19_PercentOverAll ==
    (aggOut.done /\ aggIn.indices # {}) =>
        \A st \in {aggOut.summary.pctDiabetes, aggOut.selectedStats.pctDiabetes,
                   aggOut.pinnedStats.pctDiabetes} :
            /\ isFraction(st, 100 * Cardinality(diabeticIn(aggIn.indices)),
                          Cardinality(aggIn.indices))
            /\ 0 <= st.num
            /\ st.num <= 100 * st.den

\* Three selected records, one with the flag set, one with the flag missing
\* and one with a flag that is neither 0 nor 1: one third, not one half.
C19_Witness ==
    /\ aggOut.done
    /\ Cardinality(aggIn.indices) = 3
    /\ Cardinality(diabeticIn(aggIn.indices)) = 1
    /\ \E i \in aggIn.indices : aggIn.rows[i + 1].diabetes = Null
    /\ \E i \in aggIn.indices : aggIn.rows[i + 1].diabetes = 2
    /\ isFraction(aggOut.summary.pctDiabetes, 100, 3)
    /\ isFraction(aggOut.selectedStats.pctDiabetes, 100, 3)

\* The statistics x and y are the same number, or both not a number.
sameStat(x, y) ==
    /\ x.defined = y.defined
    /\ x.defined => x.num * y.den = y.num * x.den

\* C20: for every non-empty index set, the comparison's avgAge and
\* pctDiabetes are equal to the values the subgroup summary computes for the
\* same set, a mean that is undefined included.
C20_ComparisonAgreesWithSummary ==
    (aggOut.done /\ aggIn.indices # {}) =>
        /\ ~aggOut.selectedStats.null
        /\ sameStat(aggOut.selectedStats.avgAge, aggOut.summary.avgAge)
        /\ sameStat(aggOut.selectedStats.pctDiabetes, aggOut.summary.pctDiabetes)
        /\ sameStat(aggOut.pinnedStats.avgAge, aggOut.summary.avgAge)
        /\ sameStat(aggOut.pinnedStats.pctDiabetes, aggOut.summary.pctDiabetes)

\* C26: for three records with features [age, BMI] whose ages are a value,
\* missing, a value (40, missing, 60 in particular) and whose BMI is always
\* present, all three records are kept, the missing age is imputed as the
\* mean of the two ages (50), and that record's standardized age is exactly 0:
\* its deviation from the column mean is zero. (Entries are stored doubled.)
C26_ImputedAtMean ==
    (/\ pres.done
     /\ pres.by # "computePCA"
     /\ pfeatures = <<"age", "BMI">>
     /\ Len(pdata) = 3
     /\ ~Missing(pdata[1].age) /\ Missing(pdata[2].age) /\ ~Missing(pdata[3].age)
     /\ \A i \in 1..3 : ~Missing(pdata[i].BMI)) =>
        /\ pres.validIndices = <<0, 1, 2>>
        /\ pres.matrix[2][1] = pdata[1].age + pdata[3].age
        /\ pres.normalized[2][1].c = 0
        /\ pdata = AgeFixture => pres.matrix[2][1] = 2 * 50

\* preprocessData has returned for the ages 40, missing, 60.
C26_Witness ==
    /\ pres.done
    /\ pres.by = "preprocessData"
    /\ pdata = AgeFixture
    /\ pfeatures = <<"age", "BMI">>
    /\ pres.matrix[2] = <<100, 0>>
    /\ pres.normalized[2][1].c = 0
    /\ pres.normalized[1][1].c # 0

\* C28: every element of Selection and of Pin is an original record index in
\* [0, number of records); a brush of the scatter view emits only members of
\* validIndices and a brush or click of a distribution chart emits only
\* positions of records of the dataset.
C28_IndicesAreOriginal ==
    /\ selectedIndices \subseteq 0..(Len(data.rows) - 1)
    /\ pinnedIndices \subseteq 0..(Len(data.rows) - 1)
    /\ (trail # <<>> /\ lastOp = "brush" /\ trail[Len(trail)].view = "scatter") =>
          trail[Len(trail)].arg \subseteq {validIndices[r] : r \in 1..Len(validIndices)}
    /\ (trail # <<>> /\ lastOp = "brush" /\ trail[Len(trail)].view = "chart") =>
          trail[Len(trail)].arg \subseteq 0..(Len(data.rows) - 1)

\* The last record of a dataset, whose middle record has no scatter point,
\* was brushed in a chart and pinned.
C28_Witness ==
    /\ Len(trail) = 2
    /\ trail[1].op = "brush"
    /\ trail[1].view = "chart"
    /\ trail[2].op = "pin"
    /\ validIndices = <<0, 2>>
    /\ selectedIndices = {2}
    /\ pinnedIndices = {2}

\* C29: every projection recomputation that starts eventually finishes:
\* whenever isComputing is true it eventually returns to false (and with it
\* the method selector is enabled again).
C29_ComputingEnds == isComputing ~> (~isComputing /\ methodSelectorEnabled)

\* C30: the completion of a projection recomputation leaves Selection and Pin
\* unchanged.
C30_CompletionKeepsSets ==
    [][stepOp = "timer" =>
          (selectedIndices' = selectedIndices /\ pinnedIndices' = pinnedIndices)]_vars

\* A chart brush made while the recomputation was pending is the Selection
\* after the recomputation has completed, next to an earlier pin.
C30_Witness ==
    /\ Len(trail) = 2
    /\ trail[1].op = "brush"
    /\ trail[1].view = "chart"
    /\ trail[1].arg # {}
    /\ trail[2].op = "timer"
    /\ ~isComputing
    /\ selectedIndices = trail[1].arg
    /\ pinnedIndices # {}

\* C27: the risk estimator reports the percentage of the neighbours it took
\* whose outcome flag is 1, also for a dataset of fewer than 100 records, and
\* the result lies in [0, 100].
C27_PercentOfNeighboursTaken ==
    (risk.done /\ risk.taken # <<>>) =>
        /\ risk.riskPercentage.num * Len(risk.taken)
              = 100 * Cardinality({i \in 1..Len(risk.taken) : risk.taken[i].TenYearCHD = 1})
                    * risk.riskPercentage.den
        /\ 0 <= risk.riskPercentage.num
        /\ risk.riskPercentage.num <= 100 * risk.riskPercentage.den

\* C21: the two axes returned by the power-iteration PCA are of unit length
\* and orthogonal, also when the deflated covariance is zero and the second
\* loop stops early.
C21_AxesOrthonormal ==
    pca.phase = "done" =>
        /\ ~pca.pc1.nan
        /\ ~pca.pc2.nan
        /\ dotOf(pca.pc1.dir, pca.pc2.dir) = 0

\* C22: a zero-variance feature causes no division failure: for a dataset
\* with at least one kept row, a constant first column or constant columns
\* throughout included, no axis is NaN and the coordinates and the
\* percentages of variance explained are finite.
C22_NoDivisionFailure ==
    (pca.phase = "done"
     /\ \E j \in 1..2 : computePCARows(pca.rows, continuousFeatures).normalized[1][j].ss = 0) =>
        pca.finite

\* C23: in the second loop, an iteration whose re-orthogonalized candidate
\* has norm below 1e-10 ends the loop at once and leaves as second axis the
\* vector held before that iteration: the last normalized vector, or the
\* seed [0, 1] in the first iteration.
C23_EarlyStopKeepsAxis ==
    [][(pca.phase = "second" /\ pca.iter < PowerIterations2
        /\ normBelowTolerance(residual(pca.cov, pca.pc1), pca.pc1, pca.pc2)) =>
          /\ pca'.phase = "explained"
          /\ pca'.broke
          /\ pca'.pc2 = pca.pc2
          /\ pca.iter = 0 => pca'.pc2 = seed2]_vars

\* Two perfectly correlated features: the second loop stopped in its first
\* iteration and the second axis is the seed.
C23_Witness ==
    /\ pca.phase = "done"
    /\ pca.broke
    /\ pca.iter = 0
    /\ pca.pc1.dir = <<1, 1>>
    /\ pca.pc2 = seed2
    /\ Len(pca.rows) = 3

\* C24: in t-SNE, for every row count n >= 1 (n < 3, where the perplexity
\* is 0, included), no division by a zero sum occurs and every affinity, in
\* the P matrix and in the Q matrix of every iteration, is a number of at
\* least 1e-100.
C24_AffinitiesAtLeastFloor ==
    tsne.phase \in {"descent", "done"} =>
        \A i, j \in 1..tsne.n :
            /\ tsne.P[i][j] = "pos"
            /\ tsne.iter > 0 => tsne.Q[i][j] = "pos"

\* C25: the descent loop runs exactly 1000 iterations t = 0..999; iteration
\* t uses momentum 0.5 when t < 250 and 0.8 otherwise, and re-centres the
\* embedding exactly when t mod 10 = 0.
C25_DescentSchedule ==
    /\ (tsne.phase = "descent" /\ tsne.iter > 0) =>
          /\ tsne.iter <= 1000
          /\ tsne.used = (IF tsne.iter - 1 < 250 THEN 5 ELSE 8)
          /\ tsne.centred <=> ((tsne.iter - 1) % 10 = 0)
    /\ tsne.phase = "done" =>
          /\ tsne.iter = 1000
          /\ tsne.halves = 250
          /\ tsne.centrings = 100

\* The routine returned after its last iteration, t = 999, which used
\* momentum 0.8 and did not re-centre.
C25_Witness ==
    /\ tsne.phase = "done"
    /\ tsne.iter = 1000
    /\ tsne.used = 8
    /\ ~tsne.centred
    /\ tsne.halves = 250
    /\ tsne.centrings = 100
    /\ tsne.n = 2

====
